---- MODULE Spec2Model ----
(***************************************************************************)
(* The HTTP resource facade of ten.py (and its subset main.py): the        *)
(* declared request validation, the seven route handlers and the memoized  *)
(* custom_openapi, as a state machine over the last exchange served.       *)
(*                                                                         *)
(* Python's None is the empty set and a present value x is {x}, so an      *)
(* Optional[str] is a set of at most one string.  A JSON body or a query   *)
(* string is a function from the names it carries to their values; a name  *)
(* missing from the request is missing from the function's domain.         *)
(***************************************************************************)
EXTENDS Integers, Sequences, FiniteSets, TLC

VARIABLES
    openapi_schema,   \* app.openapi_schema: None ({}) or the stored schema ({s})
    builds,           \* number of calls of get_openapi so far
    last,             \* the last exchange served: [req, resp]
    prevCreate,       \* the POST /users exchange served before the last one, if any
    history,          \* the write requests served before the last exchange
    pc,               \* per worker: position of its request in the handler
    wreq,             \* per worker: the request it is serving
    wresp,            \* per worker: the response it produced
    products          \* per frame: the local variable `products` of get_products

vars == <<openapi_schema, builds, last, prevCreate, history, pc, wreq, wresp, products>>

-----------------------------------------------------------------------------
(* Bounds of the model *)

MaxUserId == 2
MaxTime == 1
MaxPage == 1
NumWorkers == 2

(* Program constants *)

MinPasswordLength == 8

-----------------------------------------------------------------------------
(* Input domains *)

None == {}
Some(x) == {x}

UserIds == {-12, -1, 0, 5} \cup (1..MaxUserId)
FrameIds == 0..MaxUserId
Times == 0..MaxTime
PageValues == (0..MaxPage) \cup {10}

Emails == {"a@b.com", "x@y.com"}
FullNames == {"Ann Lee"}
Passwords == {"short", "1234567", "12345678", "password1"}
Categories == {"", "Books", "books", "Electronics", "Unknown"}

FieldValues(f) ==
    CASE f = "email" -> Emails
      [] f = "full_name" -> FullNames
      [] f = "password" -> Passwords

JsonObjects(fields) ==
    { b \in UNION { [D -> Emails \cup FullNames \cup Passwords] : D \in SUBSET fields } :
        \A f \in DOMAIN b : b[f] \in FieldValues(f) }

CreateBodies == JsonObjects({"email", "full_name", "password"})
UpdateBodies == JsonObjects({"email", "full_name"})
ProductQueries == UNION { [D -> Categories] : D \in SUBSET {"category"} }

-----------------------------------------------------------------------------
(* Declared schemas and their validation *)

\* Optional field of a parsed model: the value if the body carries it, else None
Field(body, f) == IF f \in DOMAIN body THEN Some(body[f]) ELSE None

\* UserBase: email required, full_name optional
UserBaseErrors(body) ==
    IF "email" \in DOMAIN body THEN {} ELSE {<<"body", "email">>}

MissingPassword(body) == "password" \notin DOMAIN body

\* min_length compared with <= instead of <
PasswordTooShort_le(body) ==
    "password" \in DOMAIN body /\ Len(body["password"]) <= MinPasswordLength

PasswordTooShort(body) ==
    "password" \in DOMAIN body /\ Len(body["password"]) < MinPasswordLength

\* UserCreate: UserBase + password required, min_length=8
UserCreateErrors(body) ==
    UserBaseErrors(body) \cup
    (IF MissingPassword(body) \/ PasswordTooShort(body)
       THEN {<<"body", "password">>} ELSE {})

\* the bound of Path written ge=0 instead of gt=0
GetUserErrors_ge(user_id) ==
    IF user_id >= 0 THEN {} ELSE {<<"path", "user_id">>}

\* Path(..., gt=0) on get_user's user_id
GetUserErrors(user_id) ==
    IF user_id > 0 THEN {} ELSE {<<"path", "user_id">>}

\* The framework's answer to a request that fails its declared constraints
ValidationFailure(errors) == [status |-> 422, body |-> [detail |-> errors]]

HTTPException(status_code, detail) ==
    [status |-> status_code, body |-> [detail |-> detail]]

UserResponse(id, email, full_name, is_active, created_at) ==
    [id |-> id, email |-> email, full_name |-> full_name,
     is_active |-> is_active, created_at |-> created_at]

Product(id, name, price, category) ==
    [id |-> id, name |-> name, price |-> price, category |-> category]

-----------------------------------------------------------------------------
(* str(int), as the f-string of delete_user formats user_id *)

Digits == <<"0", "1", "2", "3", "4", "5", "6", "7", "8", "9">>

RECURSIVE NatToStr(_)
NatToStr(n) ==
    IF n < 10 THEN Digits[n + 1]
    ELSE NatToStr(n \div 10) \o Digits[(n % 10) + 1]

IntToStr(n) == IF n < 0 THEN "-" \o NatToStr(0 - n) ELSE NatToStr(n)

-----------------------------------------------------------------------------
(* The record of the write requests served: which e-mails POST /users was    *)
(* given, which ids PUT and DELETE /users/{user_id} were given               *)

Remember(h, exchange) ==
    LET req == exchange.req
        ok == exchange.resp.status \in {200, 201}
    IN  CASE ok /\ req.op = "create_user" ->
                [h EXCEPT !.created = @ \cup {req.body["email"]}]
          [] ok /\ req.op = "update_user" ->
                [h EXCEPT !.updated = @ \cup {req.user_id}]
          [] ok /\ req.op = "delete_user" ->
                [h EXCEPT !.deleted = @ \cup {req.user_id}]
          [] OTHER -> h

-----------------------------------------------------------------------------
(* Route handlers: the response of each handler once validation has passed *)

root(now) == [status |-> 200, body |-> [status |-> "healthy", timestamp |-> now]]

\* the paging parameters applied to the list: mock_users[skip : skip + limit]
get_users_paged(skip, limit, now) ==
    LET all == << [id |-> 1, email |-> "john@example.com", full_name |-> {"John Doe"},
                   is_active |-> TRUE, created_at |-> now] >>
    IN  [status |-> 200,
         body |-> IF skip >= Len(all) \/ limit <= 0 THEN << >> ELSE all]

get_users(skip, limit, now) ==
    [status |-> 200,
     body |-> << UserResponse(1, "john@example.com", Some("John Doe"), TRUE, now) >>]

\* a handler reading a store that POST and DELETE have changed
get_user_stored(user_id, now) ==
    LET h == Remember(history, last)
        exists == (user_id = 1 \/ (user_id = 2 /\ h.created # {}))
                  /\ user_id \notin h.deleted
    IN  IF ~exists
          THEN [status |-> 404, body |-> [detail |-> "User not found"]]
          ELSE [status |-> 200,
                body |-> [id |-> user_id, email |-> "john@example.com",
                          full_name |-> {"John Doe"}, is_active |-> TRUE,
                          created_at |-> now]]

get_user(user_id, now) ==
    IF user_id # 1
      THEN HTTPException(404, "User not found")
      ELSE [status |-> 200,
            body |-> UserResponse(user_id, "john@example.com", Some("John Doe"), TRUE, now)]

\* the parsed request model echoed back, password included
create_user_echo(user, now) ==
    [status |-> 201,
     body |-> [id |-> 2, email |-> user["email"],
               full_name |-> IF "full_name" \in DOMAIN user THEN {user["full_name"]} ELSE {},
               password |-> user["password"],
               is_active |-> TRUE, created_at |-> now]]

create_user(user, now) ==
    [status |-> 201,
     body |-> UserResponse(2, user["email"], Field(user, "full_name"), TRUE, now)]

\* an existence check like get_user's in front of the update
update_user_checked(user_id, user, now) ==
    IF user_id # 1
      THEN [status |-> 404, body |-> [detail |-> "User not found"]]
      ELSE [status |-> 200,
            body |-> [id |-> user_id, email |-> user["email"],
                      full_name |-> IF "full_name" \in DOMAIN user
                                      THEN {user["full_name"]} ELSE {},
                      is_active |-> TRUE, created_at |-> now]]

update_user(user_id, user, now) ==
    [status |-> 200,
     body |-> UserResponse(user_id, user["email"], Field(user, "full_name"), TRUE, now)]

\* a delete that takes effect: the second DELETE of an id finds nothing
delete_user_once(user_id) ==
    IF user_id \in Remember(history, last).deleted
      THEN [status |-> 404, body |-> [detail |-> "User not found"]]
      ELSE [status |-> 200,
            body |-> [message |-> "User " \o IntToStr(user_id) \o " deleted successfully"]]

delete_user(user_id) ==
    [status |-> 200,
     body |-> [message |-> "User " \o IntToStr(user_id) \o " deleted successfully"]]

\* products = [Product(...), Product(...)]; prices in cents
Catalog ==
    << Product(1, "Laptop", 99999, Some("Electronics")),
       Product(2, "Book", 1999, Some("Books")) >>

\* `if category:` -- None and the empty string are both falsy
Truthy(category) == category # None /\ category # Some("")

CategoryMatches(p, category) == p.category = category

RECURSIVE FilterProducts(_, _)
FilterProducts(ps, category) ==
    IF ps = << >> THEN << >>
    ELSE (IF CategoryMatches(Head(ps), category) THEN << Head(ps) >> ELSE << >>)
         \o FilterProducts(Tail(ps), category)

get_products(category) ==
    [status |-> 200,
     body |-> IF Truthy(category) THEN FilterProducts(Catalog, category) ELSE Catalog]

-----------------------------------------------------------------------------
(* The API description and its memoization *)

Routes ==
    { <<"GET", "/">>, <<"GET", "/users">>, <<"POST", "/users">>,
      <<"GET", "/users/{user_id}">>, <<"PUT", "/users/{user_id}">>,
      <<"DELETE", "/users/{user_id}">>, <<"GET", "/products">> }

SchemaNames ==
    {"UserBase", "UserCreate", "UserResponse", "Product",
     "HTTPValidationError", "ValidationError"}

get_openapi(title, version, description, routes) ==
    [info |-> [title |-> title, version |-> version, description |-> description],
     paths |-> routes,
     components |-> [schemas |-> SchemaNames]]

\* the schema custom_openapi assembles on a miss
BuildSchema ==
    LET s == get_openapi("My API", "1.0.0", "API for managing users and products", Routes)
    IN  [info |-> s.info,
         paths |-> s.paths,
         components |->
            [schemas |-> s.components.schemas,
             securitySchemes |->
                [BearerAuth |-> [type |-> "http", scheme |-> "bearer",
                                 bearerFormat |-> "JWT"]]],
         servers |-> << [url |-> "http://localhost:8000",
                         description |-> "Development server"],
                        [url |-> "https://api.example.com",
                         description |-> "Production server"] >>,
         tags |-> << [name |-> "Users", description |-> "Operations with users"],
                     [name |-> "Products", description |-> "Operations with products"],
                     [name |-> "Health", description |-> "Health check endpoints"] >>]

\* custom_openapi without its `if app.openapi_schema:` early return
custom_openapi_nocache(stored) ==
    [schema |-> BuildSchema, stored |-> {BuildSchema}, built |-> 1]

\* custom_openapi on app.openapi_schema = stored: the schema returned, the value
\* app.openapi_schema holds afterwards, and the number of get_openapi calls made
custom_openapi(stored) ==
    IF stored # None
      THEN [schema |-> CHOOSE s \in stored : TRUE, stored |-> stored, built |-> 0]
      ELSE [schema |-> BuildSchema, stored |-> Some(BuildSchema), built |-> 1]

-----------------------------------------------------------------------------
(* Requests, and the whole route: declared validation, then the handler *)

RootRequests == { [op |-> "root"] }
GetUsersRequests ==
    { [op |-> "get_users", skip |-> s, limit |-> l] : s \in PageValues, l \in PageValues }
GetUserRequests == { [op |-> "get_user", user_id |-> i] : i \in UserIds }
CreateUserRequests == { [op |-> "create_user", body |-> b] : b \in CreateBodies }
UpdateUserRequests ==
    { [op |-> "update_user", user_id |-> i, body |-> b] : i \in UserIds, b \in UpdateBodies }
DeleteUserRequests == { [op |-> "delete_user", user_id |-> i] : i \in UserIds }
GetProductsRequests == { [op |-> "get_products", query |-> q] : q \in ProductQueries }

\* the declared constraints the request violates (empty: the handler runs)
Errors(req) ==
    CASE req.op = "get_user" -> GetUserErrors(req.user_id)
      [] req.op = "create_user" -> UserCreateErrors(req.body)
      [] req.op = "update_user" -> UserBaseErrors(req.body)
      [] OTHER -> {}

Handler(req, now) ==
    CASE req.op = "root" -> root(now)
      [] req.op = "get_users" -> get_users(req.skip, req.limit, now)
      [] req.op = "get_user" -> get_user(req.user_id, now)
      [] req.op = "create_user" -> create_user(req.body, now)
      [] req.op = "update_user" -> update_user(req.user_id, req.body, now)
      [] req.op = "delete_user" -> delete_user(req.user_id)
      [] req.op = "get_products" -> get_products(Field(req.query, "category"))

Route(req, now) ==
    IF Errors(req) # {} THEN ValidationFailure(Errors(req)) ELSE Handler(req, now)

-----------------------------------------------------------------------------
(* The server handling one request at a time *)

NoExchange == [req |-> [op |-> "none"], resp |-> [status |-> 0, body |-> << >>]]
NoWrites == [created |-> {}, updated |-> {}, deleted |-> {}]

Workers == 1..NumWorkers

Init ==
    /\ openapi_schema = None
    /\ builds = 0
    /\ last = NoExchange
    /\ prevCreate = None
    /\ history = NoWrites
    /\ pc = [w \in Workers |-> "idle"]
    /\ wreq = [w \in Workers |-> [op |-> "none"]]
    /\ wresp = [w \in Workers |-> NoExchange.resp]
    /\ products = [w \in Workers |-> << >>]

\* one exchange: the handlers read and write no application state
Exchange(req) ==
    /\ \E now \in Times : last' = [req |-> req, resp |-> Route(req, now)]
    /\ UNCHANGED <<openapi_schema, builds>>

\* the POST /users exchange before the one being served
ShiftCreate ==
    prevCreate' = IF last.req.op = "create_user" THEN Some(last) ELSE prevCreate

GET_root ==
    /\ \E req \in RootRequests : Exchange(req)
    /\ ShiftCreate
    /\ UNCHANGED <<history, pc, wreq, wresp, products>>

GET_users ==
    /\ \E req \in GetUsersRequests : Exchange(req)
    /\ ShiftCreate
    /\ UNCHANGED <<history, pc, wreq, wresp, products>>

GET_user ==
    /\ \E req \in GetUserRequests : Exchange(req)
    /\ ShiftCreate
    /\ UNCHANGED <<history, pc, wreq, wresp, products>>

POST_users ==
    /\ \E req \in CreateUserRequests : Exchange(req)
    /\ ShiftCreate
    /\ UNCHANGED <<history, pc, wreq, wresp, products>>

PUT_user ==
    /\ \E req \in UpdateUserRequests : Exchange(req)
    /\ ShiftCreate
    /\ UNCHANGED <<history, pc, wreq, wresp, products>>

DELETE_user ==
    /\ \E req \in DeleteUserRequests : Exchange(req)
    /\ ShiftCreate
    /\ UNCHANGED <<history, pc, wreq, wresp, products>>

GET_products ==
    /\ \E req \in GetProductsRequests : Exchange(req)
    /\ ShiftCreate
    /\ UNCHANGED <<history, pc, wreq, wresp, products>>

\* GET /openapi.json: the framework's route calls app.openapi, i.e. custom_openapi
GET_openapi ==
    /\ LET r == custom_openapi(openapi_schema)
       IN  /\ openapi_schema' = r.stored
           /\ builds' = builds + r.built
           /\ last' = [req |-> [op |-> "openapi"],
                       resp |-> [status |-> 200, body |-> r.schema]]
    /\ ShiftCreate
    /\ UNCHANGED <<history, pc, wreq, wresp, products>>

Next ==
    \/ GET_root
    \/ GET_users
    \/ GET_user
    \/ POST_users
    \/ PUT_user
    \/ DELETE_user
    \/ GET_products
    \/ GET_openapi

Spec == Init /\ [][Next]_vars

-----------------------------------------------------------------------------
(* Sequences of requests on /users, with the writes served so far on record *)

FrameCreateRequests ==
    { r \in CreateUserRequests : r.body \in [{"email", "password"} -> Emails \cup {"password1"}] }
FrameUpdateRequests ==
    { r \in UpdateUserRequests : r.user_id \in FrameIds /\ r.body = [email |-> "x@y.com"] }
FrameDeleteRequests == { r \in DeleteUserRequests : r.user_id \in FrameIds \cup {-12} }
FrameGetUserRequests == { r \in GetUserRequests : r.user_id \in FrameIds }
FrameGetUsersRequests == { r \in GetUsersRequests : r.skip = 0 /\ r.limit = 10 }

\* the exchange served before this one joins the record of writes
RecordWrites ==
    /\ history' = Remember(history, last)
    /\ UNCHANGED <<prevCreate, pc, wreq, wresp, products>>

Frame_POST_users ==
    /\ \E req \in FrameCreateRequests : Exchange(req)
    /\ RecordWrites

Frame_PUT_user ==
    /\ \E req \in FrameUpdateRequests : Exchange(req)
    /\ RecordWrites

Frame_DELETE_user ==
    /\ \E req \in FrameDeleteRequests : Exchange(req)
    /\ RecordWrites

Frame_GET_user ==
    /\ \E req \in FrameGetUserRequests : Exchange(req)
    /\ RecordWrites

Frame_GET_users ==
    /\ \E req \in FrameGetUsersRequests : Exchange(req)
    /\ RecordWrites

NextFrame ==
    \/ Frame_POST_users
    \/ Frame_PUT_user
    \/ Frame_DELETE_user
    \/ Frame_GET_user
    \/ Frame_GET_users

SpecFrame == Init /\ [][NextFrame]_vars

-----------------------------------------------------------------------------
(* Concurrent requests.  The framework validates a request and then runs    *)
(* its `def` handler on a pool thread, where handlers interleave statement   *)
(* by statement; the description route is a coroutine that calls            *)
(* custom_openapi on the event loop, without a point of suspension.         *)

ConcRequests ==
    RootRequests
    \cup FrameGetUsersRequests
    \cup FrameGetUserRequests
    \cup { r \in CreateUserRequests :
             r.body \in [{"email", "password"} -> {"a@b.com", "short", "password1"}] }
    \cup { r \in FrameUpdateRequests : r.user_id = MaxUserId }
    \cup { r \in FrameDeleteRequests : r.user_id = MaxUserId }
    \cup { r \in GetProductsRequests :
             Field(r.query, "category") \subseteq {"", "Books", "Unknown"} }
    \cup { [op |-> "openapi"] }

\* `products` as a module-level variable: one frame for all calls
SharedFrame(w) == 1

\* the frame holding the locals of the call of get_products that worker w runs
Frame(w) == w

\* the framework takes a request and checks its declared constraints
Accept(w) ==
    /\ pc[w] = "idle"
    /\ \E req \in ConcRequests :
         /\ wreq' = [wreq EXCEPT ![w] = req]
         /\ IF Errors(req) # {}
              THEN /\ wresp' = [wresp EXCEPT ![w] = ValidationFailure(Errors(req))]
                   /\ pc' = [pc EXCEPT ![w] = "done"]
              ELSE /\ wresp' = wresp
                   /\ pc' = [pc EXCEPT ![w] = "handler"]
    /\ UNCHANGED <<openapi_schema, builds, last, prevCreate, history, products>>

\* a handler that is a single return statement
RunHandler(w) ==
    /\ pc[w] = "handler"
    /\ wreq[w].op \notin {"get_products", "openapi"}
    /\ \E now \in Times : wresp' = [wresp EXCEPT ![w] = Handler(wreq[w], now)]
    /\ pc' = [pc EXCEPT ![w] = "done"]
    /\ UNCHANGED <<openapi_schema, builds, last, prevCreate, history, wreq, products>>

\* get_products, first statement: products = [Product(...), Product(...)]
AssignProducts(w) ==
    /\ pc[w] = "handler"
    /\ wreq[w].op = "get_products"
    /\ products' = [products EXCEPT ![Frame(w)] = Catalog]
    /\ pc' = [pc EXCEPT ![w] = "filter"]
    /\ UNCHANGED <<openapi_schema, builds, last, prevCreate, history, wreq, wresp>>

\* get_products, second statement: if category: products = [p for p in products if ...]
FilterStep(w) ==
    /\ pc[w] = "filter"
    /\ LET category == Field(wreq[w].query, "category")
       IN  products' =
             IF Truthy(category)
               THEN [products EXCEPT ![Frame(w)] = FilterProducts(@, category)]
               ELSE products
    /\ pc' = [pc EXCEPT ![w] = "return"]
    /\ UNCHANGED <<openapi_schema, builds, last, prevCreate, history, wreq, wresp>>

\* get_products, last statement: return products; the call's frame is gone
ReturnProducts(w) ==
    /\ pc[w] = "return"
    /\ wresp' = [wresp EXCEPT ![w] = [status |-> 200, body |-> products[Frame(w)]]]
    /\ products' = [products EXCEPT ![Frame(w)] = << >>]
    /\ pc' = [pc EXCEPT ![w] = "done"]
    /\ UNCHANGED <<openapi_schema, builds, last, prevCreate, history, wreq>>

\* the description route: custom_openapi, in one step of the event loop
RunOpenapi(w) ==
    /\ pc[w] = "handler"
    /\ wreq[w].op = "openapi"
    /\ LET r == custom_openapi(openapi_schema)
       IN  /\ openapi_schema' = r.stored
           /\ builds' = builds + r.built
           /\ wresp' = [wresp EXCEPT ![w] = [status |-> 200, body |-> r.schema]]
    /\ pc' = [pc EXCEPT ![w] = "done"]
    /\ UNCHANGED <<last, prevCreate, history, wreq, products>>

\* the response is sent and the worker is free again
Respond(w) ==
    /\ pc[w] = "done"
    /\ pc' = [pc EXCEPT ![w] = "idle"]
    /\ wreq' = [wreq EXCEPT ![w] = [op |-> "none"]]
    /\ wresp' = [wresp EXCEPT ![w] = NoExchange.resp]
    /\ UNCHANGED <<openapi_schema, builds, last, prevCreate, history, products>>

NextConc ==
    \E w \in Workers :
        \/ Accept(w)
        \/ RunHandler(w)
        \/ AssignProducts(w)
        \/ FilterStep(w)
        \/ ReturnProducts(w)
        \/ RunOpenapi(w)
        \/ Respond(w)

SpecConc == Init /\ [][NextConc]_vars

-----------------------------------------------------------------------------
(* Properties *)

\* a record without its timestamp field
WithoutTime(body) ==
    [f \in DOMAIN body \ {"created_at", "timestamp"} |-> body[f]]

John == [id |-> 1, email |-> "john@example.com", full_name |-> {"John Doe"},
         is_active |-> TRUE]

ValidCreate(body) ==
    /\ "email" \in DOMAIN body
    /\ "password" \in DOMAIN body
    /\ Len(body["password"]) >= 8

\* C1: GET /users/{user_id} is rejected with a validation failure (not a 404) when
\* user_id <= 0, returns 200 with the fixed John Doe record when user_id = 1, and
\* returns 404 "User not found" for every other user_id > 0.
C1_GetUserOutcomes ==
    last.req.op = "get_user" =>
        LET id == last.req.user_id
            r == last.resp
        IN  /\ id <= 0 => r.status = 422 /\ <<"path", "user_id">> \in r.body.detail
            /\ id = 1 => r.status = 200 /\ WithoutTime(r.body) = John
            /\ (id > 0 /\ id # 1) => r.status = 404 /\ r.body.detail = "User not found"

C1_Witness ==
    /\ last.req.op = "get_user"
    /\ last.req.user_id = 0
    /\ last.resp.status = 422

\* C2: POST /users with an email and a password of at least 8 characters returns 201
\* with id 2, the body's email and full_name and is_active true; a body with a
\* shorter password, or without email or password, gets a validation failure and
\* no UserResponse.
C2_CreateUser ==
    last.req.op = "create_user" =>
        LET b == last.req.body
            r == last.resp
        IN  IF ValidCreate(b)
              THEN /\ r.status = 201
                   /\ r.body.id = 2
                   /\ r.body.email = b["email"]
                   /\ r.body.full_name = Field(b, "full_name")
                   /\ r.body.is_active = TRUE
              ELSE /\ r.status = 422
                   /\ DOMAIN r.body = {"detail"}
                   /\ r.body.detail # {}

C2_Witness ==
    /\ last.req.op = "create_user"
    /\ DOMAIN last.req.body = {"email", "full_name", "password"}
    /\ last.req.body["password"] = "12345678"
    /\ last.resp.status = 201

\* the catalog items whose category equals the given string, in catalog order
ExactMatches(c) == SelectSeq(Catalog, LAMBDA p : p.category = {c})

\* C3: GET /products returns both catalog items when no category is given, and for
\* every category string that is given, the empty string included, exactly the
\* catalog items whose category equals it (case-sensitively), in catalog order.
C3_ProductsFilter ==
    last.req.op = "get_products" =>
        /\ last.resp.status = 200
        /\ last.resp.body =
             IF "category" \in DOMAIN last.req.query
               THEN ExactMatches(last.req.query["category"])
               ELSE Catalog

\* C4: PUT /users/{user_id} with a body carrying an email returns 200 for every
\* integer user_id, with id = user_id, the body's email and full_name, and
\* is_active true.
C4_UpdateUser ==
    (last.req.op = "update_user" /\ "email" \in DOMAIN last.req.body) =>
        LET b == last.req.body
            r == last.resp
        IN  /\ r.status = 200
            /\ r.body.id = last.req.user_id
            /\ r.body.email = b["email"]
            /\ r.body.full_name = Field(b, "full_name")
            /\ r.body.is_active = TRUE

C4_Witness ==
    /\ last.req.op = "update_user"
    /\ last.req.user_id = -12
    /\ "email" \in DOMAIN last.req.body
    /\ last.resp.status = 200
    /\ last.resp.body.id = -12

\* C5: DELETE /users/{user_id} returns 200 with the message
\* "User <user_id> deleted successfully" for every integer user_id, never a 404,
\* also when the same DELETE was served before.
C5_DeleteUser ==
    last.req.op = "delete_user" =>
        /\ last.resp.status = 200
        /\ last.resp.body =
             [message |-> "User " \o ToString(last.req.user_id) \o " deleted successfully"]

C5_Witness ==
    /\ last.req.op = "delete_user"
    /\ last.req.user_id = -12
    /\ -12 \in history.deleted
    /\ last.resp.body.message = "User -12 deleted successfully"

C7_PasswordDiscarded ==
    (last.req.op = "create_user" /\ last.resp.status = 201) =>
        /\ DOMAIN last.resp.body = {"id", "email", "full_name", "is_active", "created_at"}
        /\ last.resp.body.email # last.req.body["password"]
        /\ last.resp.body.full_name # {last.req.body["password"]}
        /\ \A p \in prevCreate :
             ( /\ p.resp.status = 201
               /\ p.req.body["email"] = last.req.body["email"]
               /\ Field(p.req.body, "full_name") = Field(last.req.body, "full_name") )
             => WithoutTime(p.resp.body) = WithoutTime(last.resp.body)

C7_Witness ==
    /\ last.req.op = "create_user"
    /\ last.resp.status = 201
    /\ \E p \in prevCreate :
         /\ p.resp.status = 201
         /\ p.req.body["password"] # last.req.body["password"]
         /\ [f \in DOMAIN p.req.body \ {"password"} |-> p.req.body[f]]
              = [f \in DOMAIN last.req.body \ {"password"} |-> last.req.body[f]]

\* C8: whatever POST, PUT and DELETE requests on /users were served before, GET
\* /users/1 returns 200 with the fixed record, GET /users/{id} for another id > 0
\* returns 404, GET /users returns exactly the one fixed record, and POST /users
\* returns 201 with id 2.
C8_WritesChangeNothing ==
    LET r == last.resp
    IN  /\ (last.req.op = "get_user" /\ last.req.user_id = 1) =>
              r.status = 200 /\ WithoutTime(r.body) = John
        /\ (last.req.op = "get_user" /\ last.req.user_id > 1) => r.status = 404
        /\ last.req.op = "get_users" =>
              r.status = 200 /\ Len(r.body) = 1 /\ WithoutTime(r.body[1]) = John
        /\ last.req.op = "create_user" =>
              /\ r.status = 201
              /\ r.body.id = 2
              /\ r.body.email = last.req.body["email"]

C8_Witness ==
    /\ last.req.op = "get_user"
    /\ last.req.user_id = 1
    /\ last.resp.status = 200
    /\ 1 \in history.deleted
    /\ 1 \in history.updated
    /\ history.created # {}

\* the response a request gets when it is the only one the server handles
Alone(req) ==
    IF req.op = "openapi" THEN [status |-> 200, body |-> BuildSchema] ELSE Route(req, 0)

\* a response without its timestamp fields
StripTime(op, resp) ==
    CASE resp.status \notin {200, 201} -> resp
      [] op \in {"root", "get_user", "create_user", "update_user"} ->
            [resp EXCEPT !.body = WithoutTime(@)]
      [] op = "get_users" ->
            [resp EXCEPT !.body = [i \in DOMAIN @ |-> WithoutTime(@[i])]]
      [] OTHER -> resp

\* C9: under every interleaving of concurrent requests, each request gets the
\* status and body (apart from timestamps) it would get if it ran alone.
C9_InterleavingIndependent ==
    \A w \in Workers :
        pc[w] = "done" =>
            StripTime(wreq[w].op, wresp[w]) = StripTime(wreq[w].op, Alone(wreq[w]))

C9_Witness ==
    \E v, w \in Workers :
        /\ v # w
        /\ pc[v] = "done"
        /\ wreq[v] = [op |-> "get_products", query |-> [category |-> "Books"]]
        /\ Len(wresp[v].body) = 1
        /\ pc[w] = "return"
        /\ wreq[w] = [op |-> "get_products", query |-> << >>]

\* the description custom_openapi adds to: bearer scheme, two servers, three tags
Described(schema) ==
    /\ schema.components.securitySchemes.BearerAuth.scheme = "bearer"
    /\ [i \in DOMAIN schema.servers |-> schema.servers[i].url]
         = <<"http://localhost:8000", "https://api.example.com">>
    /\ [i \in DOMAIN schema.tags |-> schema.tags[i].name]
         = <<"Users", "Products", "Health">>
    /\ schema.paths = Routes

\* C10: custom_openapi builds the description once (bearer scheme, two servers,
\* three tags), stores it in app.openapi_schema, and every later call returns the
\* stored description without building again; once set it is never replaced.
C10_Memoized ==
    /\ [](/\ builds <= 1
          /\ (builds = 0) <=> (openapi_schema = None)
          /\ \A s \in openapi_schema : Described(s)
          /\ \A w \in Workers :
               (pc[w] = "done" /\ wreq[w].op = "openapi") =>
                   wresp[w].status = 200 /\ wresp[w].body \in openapi_schema)
    /\ [][openapi_schema # None => openapi_schema' = openapi_schema]_vars

C10_Witness ==
    /\ builds = 1
    /\ \E v, w \in Workers :
         /\ v # w
         /\ pc[v] = "done" /\ wreq[v].op = "openapi"
         /\ pc[w] = "done" /\ wreq[w].op = "openapi"
         /\ wresp[v] = wresp[w]

====
